---- MODULE Spec2Model ----
(***************************************************************************)
(* A model of the LimbusLocalizeRU build scripts:                          *)
(*   scripts/utils.py    replace_shorthands, convert_keywords,             *)
(*                       get_github_releases                               *)
(*   scripts/models.py   GitHubRelease.make_readme, ReadmeData.export      *)
(*   scripts/make_dist.py  the dist pipeline (main and its four stages)    *)
(*   scripts/update_submodules.py  the submodule updater (main)            *)
(*                                                                         *)
(* A Python str is a sequence of one-character strings.  Each part of the  *)
(* program has its own specification (SpecText, SpecDoc, SpecRelease,      *)
(* SpecReadme, SpecDist, SpecSub); the variables of the other parts stay   *)
(* at their idle values.                                                   *)
(***************************************************************************)
EXTENDS Integers, Sequences, FiniteSets, TLC

VARIABLES
    \* replace_shorthands / convert_keywords (utils.py)
    text,            \* the str passed to replace_shorthands
    keyword_colors,  \* dict[str, str]: keyword id -> color
    replaced,        \* the str replace_shorthands returned
    printed,         \* the keyword ids of the "Unknown keyword ID" lines printed
    matches,         \* one record per call of make_replacement (the re.Match)
    tpc,             \* position of the replace_shorthands caller
    data,            \* the document convert_keywords works on (in place)
    data0,           \* history: the document before the call
    table0,          \* history: keyword_colors before the call
    dpc,             \* position of the convert_keywords caller
    \* GitHubRelease.make_readme (models.py)
    body,            \* GitHubRelease.body
    readme_text,     \* the list of ReadmeBodyElement built
    exported,        \* [entry.export() for entry in readme_text]
    mpc,             \* position of the make_readme caller
    \* dist_readme (make_dist.py) and its remote calls (utils.py)
    api_releases,    \* the releases the API lists (response.json())
    api_logins,      \* the contributors' logins the API lists for the repositories
    template,        \* noticeList of readme_template.json as loaded
    noticeList,      \* readme_template["noticeList"]
    releases_info,   \* what get_github_releases returned
    releases_notices,\* the list built by the loop over the releases
    enum_i,          \* the counter of enumerate(releases_info, 2911)
    rpc,             \* position in dist_readme
    \* the dist pipeline (make_dist.py: main)
    ru_tree,         \* localize/RU: path -> the bytes of the file
    sprites_tree,    \* sprites/: path -> the bytes of the file
    extra_tree,      \* extra/: path -> the bytes of the file
    keyword_files,   \* load_keyword_files(): the names to convert
    todo,            \* the files the running glob loop has yet to yield
    examined,        \* history: the RU files the loop has reached
    invalid_files,   \* invalid_files of dist_localization_data
    files,           \* metadata.files
    dist,            \* the output tree: path under dist/ -> bytes
    stages,          \* history: the stage functions called, in order
    error,           \* the exception that ended the run, if one did
    metadata_json,   \* history: every document written to dist/metadata.json
    pc,              \* position in main
    \* the submodule updater (update_submodules.py: main)
    env_ok,          \* GITHUB_TOKEN, REPO_OWNER and REPO_NAME are all set
    gitmodules,      \* .gitmodules of the repository: parses or not, its sections
    heads,           \* the head commit of each submodule's branch
    remote,          \* the repository on the server: main ref, commits, trees
    submodules,      \* what parse_gitmodules returned
    parent_sha,      \* main: parent_sha
    base_tree_sha,   \* main: base_tree_sha
    tree,            \* create_tree_with_submodule_updates: tree
    new_tree_sha,    \* main: new_tree_sha
    new_commit_sha,  \* main: new_commit_sha
    requests,        \* history: the remote calls made, with their status codes
    ref_updates,     \* history: the commits the main ref was set to
    spc              \* position in main

textVars == <<text, replaced, matches, tpc>>
docVars  == <<data, data0, table0, dpc>>
kwVars   == <<keyword_colors, printed>>
relVars  == <<body, readme_text, exported, mpc>>
distVars == <<ru_tree, sprites_tree, extra_tree, keyword_files, todo, examined,
              invalid_files, files, dist, stages, error, metadata_json, pc>>
subVars  == <<env_ok, gitmodules, heads, remote, submodules, parent_sha,
              base_tree_sha, tree, new_tree_sha, new_commit_sha, requests,
              ref_updates, spc>>
rdmVars  == <<api_releases, api_logins, template, noticeList, releases_info,
              releases_notices, enum_i, rpc>>

----------------------------------------------------------------------------
(* Characters and strings *)

NL == "\n"
QUOTE == "'"

\* Characters of the class [a-zA-Z0-9_] that the inputs use.
IdChars == {"k", "u"}

RECURSIVE Flatten(_)
Flatten(ss) == IF ss = <<>> THEN <<>> ELSE Head(ss) \o Flatten(Tail(ss))

SubStr(s, a, b) == IF a > b THEN <<>> ELSE SubSeq(s, a, b)

----------------------------------------------------------------------------
(* utils.py: KEYWORD_SHORTHAND and replace_shorthands *)

\* The fallback color of make_replacement, "#f8c200".
FallbackColor == <<"#", "f", "8", "c", "2", "0", "0">>

\* KEYWORD_SHORTHAND tried at position i of s, as the backtracking matcher
\* explores it: the lazy keyword_id group of n characters of the class, then
\* ":" and "'", then the lazy text group of m characters other than a line
\* break, then "'" and "]".  The shortest n is tried first and, for it, the
\* shortest m.
ShorthandCandidates(s, i) ==
    { nm \in (1..Len(s)) \X (1..Len(s)) :
        LET n == nm[1]
            m == nm[2]
        IN  /\ i + n + m + 4 <= Len(s)
            /\ s[i] = "["
            /\ \A j \in (i + 1)..(i + n) : s[j] \in IdChars
            /\ s[i + n + 1] = ":"
            /\ s[i + n + 2] = QUOTE
            /\ \A j \in (i + n + 3)..(i + n + 2 + m) : s[j] # NL
            /\ s[i + n + 3 + m] = QUOTE
            /\ s[i + n + 4 + m] = "]" }

\* A greedy text group: the longest text is taken instead of the shortest.
FirstCandidateGreedy(C) ==
    CHOOSE c \in C : \A d \in C : \/ c[1] < d[1]
                                  \/ (c[1] = d[1] /\ c[2] >= d[2])

FirstCandidate(C) ==
    CHOOSE c \in C : \A d \in C : \/ c[1] < d[1]
                                  \/ (c[1] = d[1] /\ c[2] <= d[2])

\* The re.Match at position i, or found = FALSE.
ShorthandMatchAt(s, i) ==
    LET C == ShorthandCandidates(s, i)
    IN  IF C = {}
        THEN [found |-> FALSE, start |-> i, end |-> i,
              keyword_id |-> <<>>, text |-> <<>>]
        ELSE LET c == FirstCandidate(C)
             IN  [found |-> TRUE, start |-> i, end |-> i + c[1] + c[2] + 4,
                  keyword_id |-> SubStr(s, i + 1, i + c[1]),
                  text |-> SubStr(s, i + c[1] + 3, i + c[1] + 2 + c[2])]

\* The markup make_replacement returns.
Markup(keyword_id, color, txt) ==
    Flatten(<< <<"<","s","p","r","i","t","e"," ","n","a","m","e","=","\"">>,
               keyword_id, <<"\"", ">">>,
               <<"<","c","o","l","o","r","=">>, color, <<">">>,
               <<"<","u",">">>,
               <<"<","l","i","n","k","=","\"">>, keyword_id, <<"\"", ">">>,
               txt,
               <<"<","/","l","i","n","k",">">>,
               <<"<","/","u",">">>,
               <<"<","/","c","o","l","o","r",">">> >>)

\* The lookup dropped: every keyword gets the fallback color, silently.
make_replacement_no_lookup(m, kc) ==
    [ret |-> Markup(m.keyword_id, FallbackColor, m.text), printed |-> FALSE]

\* make_replacement: the fragment returned and whether a line was printed.
make_replacement(m, kc) ==
    IF m.keyword_id \in DOMAIN kc
    THEN [ret |-> Markup(m.keyword_id, kc[m.keyword_id], m.text),
          printed |-> FALSE]
    ELSE [ret |-> Markup(m.keyword_id, FallbackColor, m.text),
          printed |-> TRUE]

\* KEYWORD_SHORTHAND.sub(make_replacement, text) from position i on: the scan
\* goes left to right, a match is replaced and the scan resumes after it, a
\* character no match starts at is copied.
RECURSIVE SubFrom(_, _, _)
SubFrom(s, i, kc) ==
    IF i > Len(s)
    THEN [out |-> <<>>, printed |-> <<>>, matches |-> <<>>]
    ELSE LET m == ShorthandMatchAt(s, i)
         IN  IF m.found
             THEN LET r    == make_replacement(m, kc)
                      rest == SubFrom(s, m.end + 1, kc)
                  IN  [out     |-> r.ret \o rest.out,
                       printed |-> (IF r.printed THEN <<m.keyword_id>> ELSE <<>>)
                                   \o rest.printed,
                       matches |-> <<[start |-> m.start, end |-> m.end,
                                      keyword_id |-> m.keyword_id,
                                      text |-> m.text, ret |-> r.ret,
                                      printed |-> r.printed]>>
                                   \o rest.matches]
             ELSE LET rest == SubFrom(s, i + 1, kc)
                  IN  [rest EXCEPT !.out = <<s[i]>> \o rest.out]

replace_shorthands(s, kc) == SubFrom(s, 1, kc)

----------------------------------------------------------------------------
(* Inputs of replace_shorthands *)

\* The longest input is MaxToks pieces long.
MaxToks == 3

Pieces ==
    { <<"[">>, <<"]">>, <<":">>, <<QUOTE>>, <<"k">>, <<" ">>, <<NL>>,
      <<"[", "k", ":", QUOTE>>, <<"[", "u", ":", QUOTE>>, <<QUOTE, "]">>,
      <<"[", "k", ":", QUOTE, "x", QUOTE, "]">>,
      <<"[", "u", ":", QUOTE, "x", QUOTE, "]">> }

RECURSIVE Strings(_)
Strings(n) ==
    IF n = 0 THEN {<<>>}
    ELSE LET prev == Strings(n - 1)
         IN  prev \cup {p \o t : p \in prev, t \in Pieces}

Red   == <<"#", "f", "f", "0", "0", "0", "0">>
Green == <<"#", "0", "0", "f", "f", "0", "0">>

EmptyTable == [id \in {} |-> <<>>]

KeywordTables ==
    { EmptyTable,
      [id \in {<<"k">>} |-> Red],
      [id \in {<<"k">>} |-> FallbackColor],
      [id \in {<<"k">>, <<"u">>} |-> IF id = <<"k">> THEN Red ELSE Green] }

TextIdle == /\ text = <<>>
            /\ replaced = <<>>
            /\ matches = <<>>
            /\ tpc = "idle"

DocIdle == /\ data = <<>>
           /\ data0 = <<>>
           /\ table0 = <<>>
           /\ dpc = "idle"

KwIdle == /\ keyword_colors = EmptyTable
          /\ printed = <<>>

NoError == [type |-> "", paths |-> <<>>]

DistIdle == /\ ru_tree = <<>>
            /\ sprites_tree = <<>>
            /\ extra_tree = <<>>
            /\ keyword_files = {}
            /\ todo = {}
            /\ examined = {}
            /\ invalid_files = <<>>
            /\ files = <<>>
            /\ dist = <<>>
            /\ stages = <<>>
            /\ error = NoError
            /\ metadata_json = <<>>
            /\ pc = "idle"

SubIdle == /\ env_ok = FALSE
           /\ gitmodules = <<>>
           /\ heads = <<>>
           /\ remote = <<>>
           /\ submodules = <<>>
           /\ parent_sha = 0
           /\ base_tree_sha = 0
           /\ tree = <<>>
           /\ new_tree_sha = 0
           /\ new_commit_sha = 0
           /\ requests = <<>>
           /\ ref_updates = <<>>
           /\ spc = "idle"

RdmIdle == /\ api_releases = <<>>
           /\ api_logins = <<>>
           /\ template = <<>>
           /\ noticeList = <<>>
           /\ releases_info = <<>>
           /\ releases_notices = <<>>
           /\ enum_i = 0
           /\ rpc = "idle"

RelIdle == /\ body = <<>>
           /\ readme_text = <<>>
           /\ exported = <<>>
           /\ mpc = "idle"

----------------------------------------------------------------------------
(* SpecText: one call of replace_shorthands *)

InitText ==
    /\ text \in Strings(MaxToks)
    /\ keyword_colors \in KeywordTables
    /\ replaced = <<>>
    /\ printed = <<>>
    /\ matches = <<>>
    /\ tpc = "call"
    /\ DocIdle
    /\ RelIdle
    /\ RdmIdle
    /\ DistIdle
    /\ SubIdle

ReplaceShorthands ==
    /\ tpc = "call"
    /\ LET r == replace_shorthands(text, keyword_colors)
       IN  /\ replaced' = r.out
           /\ printed' = r.printed
           /\ matches' = r.matches
    /\ tpc' = "ret"
    /\ UNCHANGED <<text, keyword_colors, docVars, relVars, rdmVars, distVars, subVars>>

vars == <<textVars, docVars, kwVars, relVars, rdmVars, distVars, subVars>>

SpecText == InitText /\ [][ReplaceShorthands]_vars

----------------------------------------------------------------------------
(* utils.py: convert_keywords *)

\* A parsed JSON value.  tag is "dict" (collections.OrderedDict: keys in
\* order, kids[i] the value of keys[i]), "list" (kids the items), "str" (val
\* the characters), or "num", "bool", "null" (val the literal).
Str(s)           == [tag |-> "str",  val |-> s, keys |-> <<>>, kids |-> <<>>]
Num(n)           == [tag |-> "num",  val |-> <<n>>, keys |-> <<>>, kids |-> <<>>]
Bool(b)          == [tag |-> "bool", val |-> <<b>>, keys |-> <<>>, kids |-> <<>>]
Null             == [tag |-> "null", val |-> <<>>, keys |-> <<>>, kids |-> <<>>]
List(kids)       == [tag |-> "list", val |-> <<>>, keys |-> <<>>, kids |-> kids]
Dict(keys, kids) == [tag |-> "dict", val |-> <<>>, keys |-> keys, kids |-> kids]

IsContainer(v) == v.tag \in {"dict", "list"}

RECURSIVE convert_keywords(_, _)

\* What the loop body does with a value whatever its type: str() of it goes
\* through replace_shorthands and is stored back.
ConvertValueAnyType(v, kc) ==
    IF IsContainer(v)
    THEN convert_keywords(v, kc)
    ELSE LET r == replace_shorthands(v.val, kc)
         IN  [doc |-> Str(r.out), printed |-> r.printed, raised |-> FALSE]

\* The body of the loop for one (key, value): a nested OrderedDict or list is
\* converted in place, a str is replaced by replace_shorthands of it under
\* the same key, anything else is left alone.
ConvertValue(v, kc) ==
    IF IsContainer(v)
    THEN convert_keywords(v, kc)
    ELSE IF v.tag = "str"
         THEN LET r == replace_shorthands(v.val, kc)
              IN  [doc |-> Str(r.out), printed |-> r.printed, raised |-> FALSE]
         ELSE [doc |-> v, printed |-> <<>>, raised |-> FALSE]

\* for key, value in items: the values are visited in order.
RECURSIVE ConvertItems(_, _)
ConvertItems(kids, kc) ==
    IF kids = <<>>
    THEN [kids |-> <<>>, printed |-> <<>>]
    ELSE LET h == ConvertValue(Head(kids), kc)
             t == ConvertItems(Tail(kids), kc)
         IN  [kids |-> <<h.doc>> \o t.kids, printed |-> h.printed \o t.printed]

\* convert_keywords(data, keyword_colors).  data other than an OrderedDict goes
\* through enumerate(data): a list is walked; an empty str yields no item; a
\* non-empty str yields its characters and the assignment data[key] = ...
\* raises TypeError; a number, a bool or None is not iterable (TypeError).
convert_keywords(d, kc) ==
    IF IsContainer(d)
    THEN LET r == ConvertItems(d.kids, kc)
         IN  [doc |-> [d EXCEPT !.kids = r.kids], printed |-> r.printed,
              raised |-> FALSE]
    ELSE IF d.tag = "str" /\ d.val = <<>>
         THEN [doc |-> d, printed |-> <<>>, raised |-> FALSE]
         ELSE [doc |-> d, printed |-> <<>>, raised |-> TRUE]

----------------------------------------------------------------------------
(* Inputs of convert_keywords *)

\* A document has at most MaxNodes values (containers and leaves).
MaxNodes == 4

Plain     == <<"k", ":", QUOTE>>
KnownSh   == <<"[", "k", ":", QUOTE, "x", QUOTE, "]">>
UnknownSh == <<"[", "u", ":", QUOTE, "x", QUOTE, "]">>

Leaves == {Num(1), Null, Str(Plain), Str(KnownSh), Str(UnknownSh)}

RECURSIVE Size(_), SizeAll(_)
Size(v) == 1 + SizeAll(v.kids)
SizeAll(kids) == IF kids = <<>> THEN 0 ELSE Size(Head(kids)) + SizeAll(Tail(kids))

\* The keys of a mapping of n entries, in one order or the other.
KeySeqs(n) ==
    { [i \in 1..n |-> <<"a", "b", "c", "d", "e", "f">>[i]],
      [i \in 1..n |-> <<"a", "b", "c", "d", "e", "f">>[n + 1 - i]] }

RECURSIVE Values(_), ValueSeqs(_)
Values(n) ==
    IF n = 0 THEN {}
    ELSE Leaves
         \cup {List(k) : k \in ValueSeqs(n - 1)}
         \cup UNION {{Dict(ks, k) : ks \in KeySeqs(Len(k))} : k \in ValueSeqs(n - 1)}
ValueSeqs(n) ==
    IF n = 0 THEN {<<>>}
    ELSE {<<>>} \cup UNION {{<<v>> \o r : r \in ValueSeqs(n - Size(v))} : v \in Values(n)}


----------------------------------------------------------------------------
(* SpecDoc: one call of convert_keywords on a document *)

InitDoc ==
    /\ data \in Values(MaxNodes)
    /\ keyword_colors \in {[id \in {<<"k">>} |-> Red]}
    /\ data0 = data
    /\ table0 = keyword_colors
    /\ printed = <<>>
    /\ dpc = "call"
    /\ TextIdle
    /\ RelIdle
    /\ RdmIdle
    /\ DistIdle
    /\ SubIdle

ConvertKeywords ==
    /\ dpc = "call"
    /\ LET r == convert_keywords(data, keyword_colors)
       IN  /\ data' = r.doc
           /\ printed' = r.printed
           /\ dpc' = IF r.raised THEN "raised" ELSE "ret"
    /\ UNCHANGED <<data0, table0, keyword_colors, textVars, relVars, rdmVars, distVars, subVars>>

SpecDoc == InitDoc /\ [][ConvertKeywords]_vars

----------------------------------------------------------------------------
(* models.py: GitHubRelease.make_readme and the elements' export *)

CR  == "\r"
TAB == "\t"

\* The line boundaries of str.splitlines() and the whitespace of str.strip()
\* among the characters the inputs use.
LineBreaks == {NL, CR}
Whitespace == {" ", TAB, NL, CR}

\* str.splitlines(): the lines without their line breaks; "\r\n" is one
\* break; a break at the very end opens no further line.
RECURSIVE SplitFrom(_, _, _)
SplitFrom(s, i, cur) ==
    IF i > Len(s)
    THEN IF cur = <<>> /\ (i = 1 \/ s[i - 1] \in LineBreaks) THEN <<>> ELSE <<cur>>
    ELSE IF s[i] \in LineBreaks
         THEN LET j == IF s[i] = CR /\ i < Len(s) /\ s[i + 1] = NL
                       THEN i + 2 ELSE i + 1
              IN  <<cur>> \o SplitFrom(s, j, <<>>)
         ELSE SplitFrom(s, i + 1, Append(cur, s[i]))

splitlines(s) == SplitFrom(s, 1, <<>>)

\* str.lstrip(chars), str.rstrip(chars), str.strip(chars)
RECURSIVE lstrip(_, _)
lstrip(s, chars) ==
    IF s # <<>> /\ Head(s) \in chars THEN lstrip(Tail(s), chars) ELSE s

RECURSIVE rstrip(_, _)
rstrip(s, chars) ==
    IF s # <<>> /\ s[Len(s)] \in chars
    THEN rstrip(SubStr(s, 1, Len(s) - 1), chars) ELSE s

strip(s, chars) == rstrip(lstrip(s, chars), chars)

startswith(s, c) == s # <<>> /\ s[1] = c

\* The size ReadmeSubTitle is given in make_readme.
SubTitleSize == 49

ReadmeText(value) == [key |-> "Text", value |-> value, size |-> 0]
ReadmeSubTitle(value, size) == [key |-> "SubTitle", value |-> value, size |-> size]

\* The test without the strip(): line.startswith("#").
IsHeadingNoStrip(line) == startswith(line, "#")

\* line.strip().startswith("#")
IsHeading(line) == startswith(strip(line, Whitespace), "#")

\* The body of the loop of make_readme for one line.
MakeElement(line) ==
    IF IsHeading(line)
    THEN ReadmeSubTitle(strip(SubStr(line, 2, Len(line)), {"#", " "}), SubTitleSize)
    ELSE ReadmeText(line)

make_readme(b) ==
    LET lines == splitlines(b)
    IN  [i \in 1..Len(lines) |-> MakeElement(lines[i])]

\* ReadmeBodyElement.export and ReadmeSubTitle.export (size 0 stands for None;
\* only 49 is written to the output here).
ExportElement(e) ==
    [formatKey |-> e.key,
     formatValue |->
        IF e.key = "SubTitle" /\ e.size # 0
        THEN <<"<","s","i","z","e","=","4","9",">">> \o e.value
             \o <<"<","/","s","i","z","e",">">>
        ELSE e.value]

----------------------------------------------------------------------------
(* SpecRelease: one call of make_readme on a release body *)

\* The longest release body, in characters.
MaxBody == 5

BodyChars == {"#", " ", TAB, "x", NL, CR}

RECURSIVE Bodies(_)
Bodies(n) ==
    IF n = 0 THEN {<<>>}
    ELSE LET prev == Bodies(n - 1)
         IN  prev \cup {Append(p, c) : p \in prev, c \in BodyChars}

InitRelease ==
    /\ body \in Bodies(MaxBody)
    /\ readme_text = <<>>
    /\ exported = <<>>
    /\ mpc = "call"
    /\ TextIdle
    /\ DocIdle
    /\ KwIdle
    /\ RdmIdle
    /\ DistIdle
    /\ SubIdle

MakeReadme ==
    /\ mpc = "call"
    /\ readme_text' = make_readme(body)
    /\ exported' = [i \in DOMAIN readme_text' |-> ExportElement(readme_text'[i])]
    /\ mpc' = "ret"
    /\ UNCHANGED <<body, textVars, docVars, kwVars, rdmVars, distVars, subVars>>

SpecRelease == InitRelease /\ [][MakeReadme]_vars

----------------------------------------------------------------------------
(* make_dist.py: dist_readme's notice list; utils.py: get_github_releases,   *)
(* make_readme_contributors, make_readme_extra; models.py: ReadmeData.export *)

Reverse(q) == [j \in 1..Len(q) |-> q[Len(q) + 1 - j]]

\* The ids dist_readme passes to export, and the start of its enumerate.
ContributorsId == 1193
ExtraId == 1194
ReleaseIdBase == 2911

DefaultStartDate == "2023-08-31T00:00:00.000Z"
EndDate == "2024-12-31T23:00:00.000Z"

\* A release of the API: published_at is a day number, its name and its body
\* are those of that day.
ReleaseNames == <<"v1", "v2", "v3", "v4", "v5", "v6">>
ReleaseDates == <<"2024-01-01T00:00:00.000Z", "2024-01-02T00:00:00.000Z",
                  "2024-01-03T00:00:00.000Z", "2024-01-04T00:00:00.000Z",
                  "2024-01-05T00:00:00.000Z", "2024-01-06T00:00:00.000Z">>
ReleaseBody(day) == IF day % 2 = 1 THEN <<"#", " ", "x">> ELSE <<"x", NL, "#">>
GitHubRelease(day) ==
    [name |-> ReleaseNames[day], body |-> ReleaseBody(day), published_at |-> day]

\* ReadmeData(title, text, start_date).export(id_, type_)
ExportNotice(title, elements, start_date, id_, type_) ==
    [id |-> id_, version |-> 0, type |-> type_, startDate |-> start_date,
     endDate |-> EndDate, sprNameList |-> <<>>, title_KR |-> title,
     content_KR |-> [j \in DOMAIN elements |-> ExportElement(elements[j])]]

\* release.make_readme().export(id_): type_ has its default, 0.
ExportRelease(release, id_) ==
    ExportNotice(release.name, make_readme(release.body),
                 ReleaseDates[release.published_at], id_, 0)

\* The list kept in the order of the response.
get_github_releases_unreversed(response) == response

\* get_github_releases: [GitHubRelease(**release) for release in data[::-1]]
get_github_releases(response) == Reverse(response)

\* sorted(set(contributors)) for logins among "a", "b", "c".
SortedSet(logins) ==
    LET has(c) == \E j \in DOMAIN logins : logins[j] = c
    IN  (IF has("a") THEN <<"a">> ELSE <<>>) \o (IF has("b") THEN <<"b">> ELSE <<>>)
        \o (IF has("c") THEN <<"c">> ELSE <<>>)

\* make_readme_contributors: logins is the concatenation of the User logins of
\* the repositories.  (The titles are written in Latin letters here.)
\* ReadmeLink(url, value).export() gives <link=url>value</link>; the element
\* is kept here with that value.
ReadmeLink(url, value) ==
    [key |-> "HyperLink", size |-> 0,
     value |-> <<"<","l","i","n","k","=">> \o url \o <<">">> \o value
               \o <<"<","/","l","i","n","k",">">>]

make_readme_contributors(logins) ==
    LET sorted == SortedSet(logins)
    IN  <<ReadmeSubTitle(<<"contributors">>, SubTitleSize)>>
        \o [j \in DOMAIN sorted |-> ReadmeText(<<"-", " ", sorted[j]>>)]
        \o <<ReadmeSubTitle(<<"help">>, SubTitleSize),
             ReadmeLink(<<"https://github.com/kimght/LimbusStory">>, <<"GitHub">>)>>

make_readme_extra ==
    <<ReadmeSubTitle(<<"extra">>, SubTitleSize), ReadmeText(<<"reader">>),
      ReadmeLink(<<"https://kimght.github.io">>, <<"kimght.github.io">>)>>

----------------------------------------------------------------------------
(* SpecReadme: dist_readme up to the assembled notice list *)

\* The API lists at most MaxReleases releases.
MaxReleases == 4

\* The releases published on the days of D, as the API lists them: the
\* newest first.
RECURSIVE NewestFirst(_)
NewestFirst(D) ==
    IF D = {} THEN <<>>
    ELSE LET d == CHOOSE x \in D : \A y \in D : y <= x
         IN  <<GitHubRelease(d)>> \o NewestFirst(D \ {d})

TemplateNotice(n) ==
    [id |-> n, version |-> 0, type |-> 0, startDate |-> DefaultStartDate,
     endDate |-> EndDate, sprNameList |-> <<>>, title_KR |-> "template",
     content_KR |-> <<>>]

Templates == {<<>>, <<TemplateNotice(1)>>, <<TemplateNotice(2), TemplateNotice(1)>>}

InitReadme ==
    /\ api_releases \in {NewestFirst(D) : D \in SUBSET (1..MaxReleases)}
    /\ api_logins \in {<<>>, <<"b", "a">>, <<"c", "b", "c">>}
    /\ template \in Templates
    /\ noticeList = <<>>
    /\ releases_info = <<>>
    /\ releases_notices = <<>>
    /\ enum_i = 0
    /\ rpc = "contributors"
    /\ TextIdle
    /\ DocIdle
    /\ KwIdle
    /\ RelIdle
    /\ DistIdle
    /\ SubIdle

\* Lines 119-130: the template is loaded, the contributors are fetched and
\* the two fixed notices are appended.
ReadmeContributors ==
    /\ rpc = "contributors"
    /\ noticeList' = template
          \o <<ExportNotice("contributors", make_readme_contributors(api_logins),
                            DefaultStartDate, ContributorsId, 1)>>
          \o <<ExportNotice("extra", make_readme_extra, DefaultStartDate, ExtraId, 1)>>
    /\ rpc' = "releases"
    /\ UNCHANGED <<api_releases, api_logins, template, releases_info,
                   releases_notices, enum_i>>
    /\ UNCHANGED <<textVars, docVars, kwVars, relVars, distVars, subVars>>

\* get_github_contributors: response.raise_for_status() raises.
ReadmeContributorsFail ==
    /\ rpc = "contributors"
    /\ noticeList' = template
    /\ rpc' = "raised"
    /\ UNCHANGED <<api_releases, api_logins, template, releases_info,
                   releases_notices, enum_i>>
    /\ UNCHANGED <<textVars, docVars, kwVars, relVars, distVars, subVars>>

\* Lines 132-134: the releases are fetched; enumerate starts at 2911.
ReadmeReleases ==
    /\ rpc = "releases"
    /\ releases_info' = get_github_releases(api_releases)
    /\ enum_i' = ReleaseIdBase
    /\ rpc' = "loop"
    /\ UNCHANGED <<api_releases, api_logins, template, noticeList, releases_notices>>
    /\ UNCHANGED <<textVars, docVars, kwVars, relVars, distVars, subVars>>

\* get_github_releases: response.raise_for_status() raises.
ReadmeReleasesFail ==
    /\ rpc = "releases"
    /\ rpc' = "raised"
    /\ UNCHANGED <<api_releases, api_logins, template, noticeList, releases_info,
                   releases_notices, enum_i>>
    /\ UNCHANGED <<textVars, docVars, kwVars, relVars, distVars, subVars>>

\* Lines 134-136: one turn of the loop.
ReadmeReleaseStep ==
    /\ rpc = "loop"
    /\ enum_i - ReleaseIdBase < Len(releases_info)
    /\ LET release == releases_info[enum_i - ReleaseIdBase + 1]
       IN  releases_notices' = Append(releases_notices, ExportRelease(release, enum_i + 1))
    /\ enum_i' = enum_i + 1
    /\ UNCHANGED <<api_releases, api_logins, template, noticeList, releases_info, rpc>>
    /\ UNCHANGED <<textVars, docVars, kwVars, relVars, distVars, subVars>>

\* Line 138: noticeList.extend(releases_notices[::-1]).
ReadmeExtend ==
    /\ rpc = "loop"
    /\ enum_i - ReleaseIdBase = Len(releases_info)
    /\ noticeList' = noticeList \o Reverse(releases_notices)
    /\ rpc' = "done"
    /\ UNCHANGED <<api_releases, api_logins, template, releases_info,
                   releases_notices, enum_i>>
    /\ UNCHANGED <<textVars, docVars, kwVars, relVars, distVars, subVars>>

NextReadme ==
    \/ ReadmeContributors
    \/ ReadmeContributorsFail
    \/ ReadmeReleases
    \/ ReadmeReleasesFail
    \/ ReadmeReleaseStep
    \/ ReadmeExtend

SpecReadme == InitReadme /\ [][NextReadme]_vars

----------------------------------------------------------------------------
(* make_dist.py: the dist pipeline *)

\* The bytes of a file.  kind "json": UTF-8 text (a BOM accepted) that parses
\* to doc; fmt "dump4" says the bytes are exactly what
\* json.dump(doc, f, ensure_ascii=False, indent=4) writes to a utf-8-sig file,
\* any other fmt that they are laid out otherwise.  kind "malformed": UTF-8
\* text that json.load rejects (json.JSONDecodeError).  kind "undecodable":
\* bytes that are not UTF-8 (UnicodeDecodeError in file.read()).  kind "raw":
\* the bytes fmt names.
Json(doc, fmt) == [kind |-> "json", doc |-> doc, fmt |-> fmt]
Malformed      == [kind |-> "malformed", doc |-> Null, fmt |-> ""]
Undecodable    == [kind |-> "undecodable", doc |-> Null, fmt |-> ""]
Raw(label)     == [kind |-> "raw", doc |-> Null, fmt |-> label]

\* get_file_checksum: the md5 digest of the bytes (digests of different bytes
\* are taken to differ).
get_file_checksum(bytes) == [md5 |-> bytes]

\* validate_json_file: True, False, or the exception that passes through
\* `except json.JSONDecodeError`.
validate_json_file(bytes) ==
    CASE bytes.kind = "json"        -> "True"
      [] bytes.kind = "malformed"   -> "False"
      [] OTHER                      -> "UnicodeDecodeError"

\* json.dump(content, f, ensure_ascii=False, indent=4) on a utf-8-sig file.
JsonDump(content) == Json(content, "dump4")

\* A path is the sequence of its components; file.name is the last one.
FileName(path) == path[Len(path)]

\* metadata.files = [FileMetaData(...)] in place of the append.
FilesReplaced(fs, path, checksum) ==
    <<[path |-> path, checksum |-> checksum]>>

\* metadata.files.append(FileMetaData(path=..., checksum=...))
FilesAppend(fs, path, checksum) ==
    Append(fs, [path |-> path, checksum |-> checksum])

\* shutil.copy / open(..., "w"): the file at path now holds bytes.
Written(out, path, bytes) ==
    [q \in DOMAIN out \cup {path} |-> IF q = path THEN bytes ELSE out[q]]

DistVersion == "1.0.0"

\* main, lines 154-160: metadata is created and dist_localization_data is
\* called; its glob starts.
DistStart ==
    /\ pc = "start"
    /\ stages' = Append(stages, "dist_localization_data")
    /\ todo' = DOMAIN ru_tree
    /\ pc' = "loc"
    /\ UNCHANGED <<ru_tree, sprites_tree, extra_tree, keyword_files, examined,
                   invalid_files, files, dist, error, metadata_json>>
    /\ UNCHANGED <<textVars, docVars, kwVars, relVars, rdmVars, subVars>>

\* Lines 43-49: a file that validate_json_file rejects.
LocInvalid ==
    /\ pc = "loc"
    /\ \E file \in todo :
          /\ validate_json_file(ru_tree[file]) = "False"
          /\ invalid_files' = Append(invalid_files, file)
          /\ todo' = todo \ {file}
          /\ examined' = examined \cup {file}
    /\ UNCHANGED <<ru_tree, sprites_tree, extra_tree, keyword_files, files, dist,
                   stages, error, metadata_json, pc>>
    /\ UNCHANGED <<textVars, docVars, kwVars, relVars, rdmVars, subVars>>

\* Lines 29-30: the exception validate_json_file does not catch ends the run.
LocUndecodable ==
    /\ pc = "loc"
    /\ \E file \in todo :
          /\ validate_json_file(ru_tree[file]) = "UnicodeDecodeError"
          /\ error' = [type |-> "UnicodeDecodeError", paths |-> <<>>]
          /\ todo' = todo \ {file}
          /\ examined' = examined \cup {file}
    /\ pc' = "raised"
    /\ UNCHANGED <<ru_tree, sprites_tree, extra_tree, keyword_files, invalid_files,
                   files, dist, stages, metadata_json>>
    /\ UNCHANGED <<textVars, docVars, kwVars, relVars, rdmVars, subVars>>

\* Lines 54-70: a valid file whose name is in keyword_files is parsed,
\* converted and dumped; the checksum recorded is get_file_checksum(file).
\* (The keyword files of RuContents are lists or mappings, which
\* convert_keywords accepts.)
LocKeyword ==
    /\ pc = "loc"
    /\ \E file \in todo :
          /\ validate_json_file(ru_tree[file]) = "True"
          /\ FileName(file) \in keyword_files
          /\ LET r == convert_keywords(ru_tree[file].doc, keyword_colors)
             IN  /\ ~r.raised
                 /\ dist' = Written(dist, file, JsonDump(r.doc))
                 /\ printed' = printed \o r.printed
          /\ files' = FilesAppend(files, file, get_file_checksum(ru_tree[file]))
          /\ todo' = todo \ {file}
          /\ examined' = examined \cup {file}
    /\ UNCHANGED <<ru_tree, sprites_tree, extra_tree, keyword_files, invalid_files,
                   stages, error, metadata_json, pc>>
    /\ UNCHANGED <<textVars, docVars, keyword_colors, relVars, rdmVars, subVars>>

\* Lines 62-70: any other valid file is copied by shutil.copy.
LocCopy ==
    /\ pc = "loc"
    /\ \E file \in todo :
          /\ validate_json_file(ru_tree[file]) = "True"
          /\ FileName(file) \notin keyword_files
          /\ dist' = Written(dist, file, ru_tree[file])
          /\ files' = FilesAppend(files, file, get_file_checksum(ru_tree[file]))
          /\ todo' = todo \ {file}
          /\ examined' = examined \cup {file}
    /\ UNCHANGED <<ru_tree, sprites_tree, extra_tree, keyword_files, invalid_files,
                   stages, error, metadata_json, pc>>
    /\ UNCHANGED <<textVars, docVars, kwVars, relVars, rdmVars, subVars>>

\* Lines 72-73: the glob is exhausted and invalid_files is not empty.
LocRaise ==
    /\ pc = "loc"
    /\ todo = {}
    /\ invalid_files # <<>>
    /\ error' = [type |-> "ValueError", paths |-> invalid_files]
    /\ pc' = "raised"
    /\ UNCHANGED <<ru_tree, sprites_tree, extra_tree, keyword_files, todo, examined,
                   invalid_files, files, dist, stages, metadata_json>>
    /\ UNCHANGED <<textVars, docVars, kwVars, relVars, rdmVars, subVars>>

\* dist_localization_data returns; main calls dist_sprites (line 161).
LocReturn ==
    /\ pc = "loc"
    /\ todo = {}
    /\ invalid_files = <<>>
    /\ stages' = Append(stages, "dist_sprites")
    /\ todo' = DOMAIN sprites_tree
    /\ pc' = "sprites"
    /\ UNCHANGED <<ru_tree, sprites_tree, extra_tree, keyword_files, examined,
                   invalid_files, files, dist, error, metadata_json>>
    /\ UNCHANGED <<textVars, docVars, kwVars, relVars, rdmVars, subVars>>

\* dist_sprites, lines 79-93: one file.
SpritesCopy ==
    /\ pc = "sprites"
    /\ \E file \in todo :
          LET path == <<"Readme", "Sprites">> \o file
          IN  /\ dist' = Written(dist, path, sprites_tree[file])
              /\ files' = FilesAppend(files, path, get_file_checksum(sprites_tree[file]))
              /\ todo' = todo \ {file}
    /\ UNCHANGED <<ru_tree, sprites_tree, extra_tree, keyword_files, examined,
                   invalid_files, stages, error, metadata_json, pc>>
    /\ UNCHANGED <<textVars, docVars, kwVars, relVars, rdmVars, subVars>>

\* dist_sprites returns; main calls dist_extra_files (line 162).
SpritesReturn ==
    /\ pc = "sprites"
    /\ todo = {}
    /\ stages' = Append(stages, "dist_extra_files")
    /\ todo' = DOMAIN extra_tree
    /\ pc' = "extra"
    /\ UNCHANGED <<ru_tree, sprites_tree, extra_tree, keyword_files, examined,
                   invalid_files, files, dist, error, metadata_json>>
    /\ UNCHANGED <<textVars, docVars, kwVars, relVars, rdmVars, subVars>>

\* dist_extra_files, lines 99-113: one file.
ExtraCopy ==
    /\ pc = "extra"
    /\ \E file \in todo :
          LET path == <<"Readme">> \o file
          IN  /\ dist' = Written(dist, path, extra_tree[file])
              /\ files' = FilesAppend(files, path, get_file_checksum(extra_tree[file]))
              /\ todo' = todo \ {file}
    /\ UNCHANGED <<ru_tree, sprites_tree, extra_tree, keyword_files, examined,
                   invalid_files, stages, error, metadata_json, pc>>
    /\ UNCHANGED <<textVars, docVars, kwVars, relVars, rdmVars, subVars>>

\* dist_extra_files returns; main calls dist_readme (line 163).
ExtraReturn ==
    /\ pc = "extra"
    /\ todo = {}
    /\ stages' = Append(stages, "dist_readme")
    /\ pc' = "readme"
    /\ UNCHANGED <<ru_tree, sprites_tree, extra_tree, keyword_files, todo, examined,
                   invalid_files, files, dist, error, metadata_json>>
    /\ UNCHANGED <<textVars, docVars, kwVars, relVars, rdmVars, subVars>>

\* dist_readme, lines 117-150: the readme is assembled (SpecReadme has the
\* notice list), written to Readme/Readme.json, and recorded with the
\* checksum of the file written.
DistReadme ==
    /\ pc = "readme"
    /\ LET path == <<"Readme", "Readme.json">>
       IN  /\ dist' = Written(dist, path, Raw("readme"))
           /\ files' = FilesAppend(files, path, get_file_checksum(dist'[path]))
    /\ pc' = "write"
    /\ UNCHANGED <<ru_tree, sprites_tree, extra_tree, keyword_files, todo, examined,
                   invalid_files, stages, error, metadata_json>>
    /\ UNCHANGED <<textVars, docVars, kwVars, relVars, rdmVars, subVars>>

\* dist_readme: one of its remote calls raises (response.raise_for_status()).
DistReadmeFail ==
    /\ pc = "readme"
    /\ error' = [type |-> "HTTPStatusError", paths |-> <<>>]
    /\ pc' = "raised"
    /\ UNCHANGED <<ru_tree, sprites_tree, extra_tree, keyword_files, todo, examined,
                   invalid_files, files, dist, stages, metadata_json>>
    /\ UNCHANGED <<textVars, docVars, kwVars, relVars, rdmVars, subVars>>

\* main, lines 165-166: metadata.json is written.
WriteMetadata ==
    /\ pc = "write"
    /\ metadata_json' = Append(metadata_json, [version |-> DistVersion, files |-> files])
    /\ pc' = "done"
    /\ UNCHANGED <<ru_tree, sprites_tree, extra_tree, keyword_files, todo, examined,
                   invalid_files, files, dist, stages, error>>
    /\ UNCHANGED <<textVars, docVars, kwVars, relVars, rdmVars, subVars>>

----------------------------------------------------------------------------
(* SpecDist: one run of the dist pipeline *)

\* A source tree holds at most MaxFiles files.
MaxFiles == 2

RuPaths == {<<"RU", "a.json">>, <<"RU", "b.json">>, <<"RU", "d", "a.json">>}

RuContents ==
    { Json(List(<<Str(Plain)>>), "dump4"),
      Json(List(<<Str(Plain)>>), "compact"),
      Json(List(<<Str(KnownSh)>>), "compact"),
      Malformed,
      Undecodable }

SpritePaths == {<<"s.png">>}
ExtraPaths == {<<"e.txt">>, <<"Readme.json">>, <<"Sprites", "s.png">>}

Trees(paths, contents) ==
    UNION {[P -> contents] : P \in {Q \in SUBSET paths : Cardinality(Q) <= MaxFiles}}

InitDist ==
    /\ ru_tree \in Trees(RuPaths, RuContents)
    /\ sprites_tree \in Trees(SpritePaths, {Raw("sprite")})
    /\ extra_tree \in Trees(ExtraPaths, {Raw("extra")})
    /\ keyword_files = {"a.json"}
    /\ keyword_colors = [id \in {<<"k">>} |-> Red]
    /\ printed = <<>>
    /\ todo = {}
    /\ examined = {}
    /\ invalid_files = <<>>
    /\ files = <<>>
    /\ dist = <<>>
    /\ stages = <<>>
    /\ error = NoError
    /\ metadata_json = <<>>
    /\ pc = "start"
    /\ TextIdle
    /\ DocIdle
    /\ RelIdle
    /\ RdmIdle
    /\ SubIdle

NextDist ==
    \/ DistStart
    \/ LocInvalid
    \/ LocUndecodable
    \/ LocKeyword
    \/ LocCopy
    \/ LocRaise
    \/ LocReturn
    \/ SpritesCopy
    \/ SpritesReturn
    \/ ExtraCopy
    \/ ExtraReturn
    \/ DistReadme
    \/ DistReadmeFail
    \/ WriteMetadata

SpecDist == InitDist /\ [][NextDist]_vars

----------------------------------------------------------------------------
(* update_submodules.py: the submodule updater *)

\* The status codes the functions compare the response with.
HTTP_OK == 200
HTTP_CREATED == 201

\* The status codes the server answers with: the two above and 404.
Statuses == {HTTP_OK, HTTP_CREATED, 404}

\* The comparison dropped: the response is used whatever its status.
StatusIgnored(status, expected) == TRUE

\* `if response.status_code != expected: raise Exception(...)` lets the call
\* through.
StatusIs(status, expected) == status = expected

Request(op, status) == [op |-> op, status |-> status]

\* A sha the server has not used yet.
FreshSha(r) ==
    1 + (CHOOSE m \in r.shas : \A x \in r.shas : x <= m)

\* get_env_variables, lines 7-17.
GetEnv ==
    /\ spc = "env"
    /\ spc' = IF env_ok THEN "fetch_gitmodules" ELSE "raised"
    /\ UNCHANGED <<env_ok, gitmodules, heads, remote, submodules, parent_sha,
                   base_tree_sha, tree, new_tree_sha, new_commit_sha, requests,
                   ref_updates>>
    /\ UNCHANGED <<textVars, docVars, kwVars, relVars, rdmVars, distVars>>

\* fetch_gitmodules (lines 20-36) and parse_gitmodules (lines 39-50), which
\* raises on a file configparser rejects or a section without path or url.
FetchGitmodules ==
    /\ spc = "fetch_gitmodules"
    /\ \E status \in Statuses :
          /\ requests' = Append(requests, Request("fetch_gitmodules", status))
          /\ IF StatusIs(status, HTTP_OK) /\ gitmodules.parses
             THEN /\ submodules' = gitmodules.sections
                  /\ spc' = "get_ref"
             ELSE /\ submodules' = submodules
                  /\ spc' = "raised"
    /\ UNCHANGED <<env_ok, gitmodules, heads, remote, parent_sha, base_tree_sha,
                   tree, new_tree_sha, new_commit_sha, ref_updates>>
    /\ UNCHANGED <<textVars, docVars, kwVars, relVars, rdmVars, distVars>>

\* main, lines 167-181: GET git/ref/heads/main.
GetMainRef ==
    /\ spc = "get_ref"
    /\ \E status \in Statuses :
          /\ requests' = Append(requests, Request("get_ref", status))
          /\ IF StatusIs(status, HTTP_OK)
             THEN /\ parent_sha' = remote.main
                  /\ spc' = "get_commit"
             ELSE /\ parent_sha' = parent_sha
                  /\ spc' = "raised"
    /\ UNCHANGED <<env_ok, gitmodules, heads, remote, submodules, base_tree_sha,
                   tree, new_tree_sha, new_commit_sha, ref_updates>>
    /\ UNCHANGED <<textVars, docVars, kwVars, relVars, rdmVars, distVars>>

\* main, lines 183-188: GET git/commits/{parent_sha}.
GetParentCommit ==
    /\ spc = "get_commit"
    /\ \E status \in Statuses :
          /\ requests' = Append(requests, Request("get_commit", status))
          /\ IF StatusIs(status, HTTP_OK)
             THEN /\ base_tree_sha' = remote.commits[parent_sha].tree
                  /\ spc' = "create_tree"
             ELSE /\ base_tree_sha' = base_tree_sha
                  /\ spc' = "raised"
    /\ UNCHANGED <<env_ok, gitmodules, heads, remote, submodules, parent_sha,
                   tree, new_tree_sha, new_commit_sha, ref_updates>>
    /\ UNCHANGED <<textVars, docVars, kwVars, relVars, rdmVars, distVars>>

\* create_tree_with_submodule_updates, lines 86-95: get_latest_commit_sha
\* (lines 53-75) for the next submodule.
GetSubmoduleBranch ==
    /\ spc = "create_tree"
    /\ Len(tree) < Len(submodules)
    /\ LET path == submodules[Len(tree) + 1]
       IN  \E status \in Statuses :
              /\ requests' = Append(requests, Request("get_branch", status))
              /\ IF StatusIs(status, HTTP_OK)
                 THEN /\ tree' = Append(tree, [path |-> path, sha |-> heads[path]])
                      /\ spc' = spc
                 ELSE /\ tree' = tree
                      /\ spc' = "raised"
    /\ UNCHANGED <<env_ok, gitmodules, heads, remote, submodules, parent_sha,
                   base_tree_sha, new_tree_sha, new_commit_sha, ref_updates>>
    /\ UNCHANGED <<textVars, docVars, kwVars, relVars, rdmVars, distVars>>

\* create_tree_with_submodule_updates, lines 97-110: POST git/trees.
CreateTree ==
    /\ spc = "create_tree"
    /\ Len(tree) = Len(submodules)
    /\ \E status \in Statuses :
          /\ requests' = Append(requests, Request("create_tree", status))
          /\ IF StatusIs(status, HTTP_CREATED)
             THEN LET sha == FreshSha(remote)
                  IN  /\ remote' = [remote EXCEPT
                             !.shas = @ \cup {sha},
                             !.trees = @ \cup {[sha |-> sha, base_tree |-> base_tree_sha,
                                                tree |-> tree]}]
                      /\ new_tree_sha' = sha
                      /\ spc' = "create_commit"
             ELSE /\ remote' = remote
                  /\ new_tree_sha' = new_tree_sha
                  /\ spc' = "raised"
    /\ UNCHANGED <<env_ok, gitmodules, heads, submodules, parent_sha, base_tree_sha,
                   tree, new_commit_sha, ref_updates>>
    /\ UNCHANGED <<textVars, docVars, kwVars, relVars, rdmVars, distVars>>

\* create_commit, lines 113-135: POST git/commits.
CreateCommit ==
    /\ spc = "create_commit"
    /\ \E status \in Statuses :
          /\ requests' = Append(requests, Request("create_commit", status))
          /\ IF StatusIs(status, HTTP_CREATED)
             THEN LET sha == FreshSha(remote)
                  IN  /\ remote' = [remote EXCEPT
                             !.shas = @ \cup {sha},
                             !.commits = [c \in DOMAIN @ \cup {sha} |->
                                            IF c = sha
                                            THEN [tree |-> new_tree_sha,
                                                  parents |-> <<parent_sha>>]
                                            ELSE @[c]]]
                      /\ new_commit_sha' = sha
                      /\ spc' = "update_ref"
             ELSE /\ remote' = remote
                  /\ new_commit_sha' = new_commit_sha
                  /\ spc' = "raised"
    /\ UNCHANGED <<env_ok, gitmodules, heads, submodules, parent_sha, base_tree_sha,
                   tree, new_tree_sha, ref_updates>>
    /\ UNCHANGED <<textVars, docVars, kwVars, relVars, rdmVars, distVars>>

\* update_branch_to_commit, lines 138-158: PATCH git/refs/heads/main.
UpdateBranch ==
    /\ spc = "update_ref"
    /\ \E status \in Statuses :
          /\ requests' = Append(requests, Request("update_ref", status))
          /\ IF StatusIs(status, HTTP_OK)
             THEN /\ remote' = [remote EXCEPT !.main = new_commit_sha]
                  /\ ref_updates' = Append(ref_updates, new_commit_sha)
                  /\ spc' = "done"
             ELSE /\ remote' = remote
                  /\ ref_updates' = ref_updates
                  /\ spc' = "raised"
    /\ UNCHANGED <<env_ok, gitmodules, heads, submodules, parent_sha, base_tree_sha,
                   tree, new_tree_sha, new_commit_sha>>
    /\ UNCHANGED <<textVars, docVars, kwVars, relVars, rdmVars, distVars>>

----------------------------------------------------------------------------
(* SpecSub: one run of the submodule updater *)

\* .gitmodules has at most MaxSubs sections.
MaxSubs == 2

SubmodulePaths == <<"sub1", "sub2", "sub3", "sub4">>

\* The repository before the run: main at commit 1, whose tree is 2; the
\* submodules' branches are at commits 3 or 4.
InitRemote ==
    [main |-> 1, shas |-> {1, 2, 3, 4},
     commits |-> [c \in {1} |-> [tree |-> 2, parents |-> <<>>]],
     trees |-> {}]

InitSub ==
    /\ env_ok \in BOOLEAN
    /\ \E n \in 0..MaxSubs : \E parses \in BOOLEAN :
          gitmodules = [parses |-> parses,
                        sections |-> [j \in 1..n |-> SubmodulePaths[j]]]
    /\ heads \in [{SubmodulePaths[j] : j \in 1..Len(gitmodules.sections)} -> {3, 4}]
    /\ remote = InitRemote
    /\ submodules = <<>>
    /\ parent_sha = 0
    /\ base_tree_sha = 0
    /\ tree = <<>>
    /\ new_tree_sha = 0
    /\ new_commit_sha = 0
    /\ requests = <<>>
    /\ ref_updates = <<>>
    /\ spc = "env"
    /\ TextIdle
    /\ DocIdle
    /\ KwIdle
    /\ RelIdle
    /\ RdmIdle
    /\ DistIdle

NextSub ==
    \/ GetEnv
    \/ FetchGitmodules
    \/ GetMainRef
    \/ GetParentCommit
    \/ GetSubmoduleBranch
    \/ CreateTree
    \/ CreateCommit
    \/ UpdateBranch

SpecSub == InitSub /\ [][NextSub]_vars

----------------------------------------------------------------------------
(* Claims about replace_shorthands *)

Range(f) == {f[i] : i \in DOMAIN f}

\* s[a..e] has the shape of the shorthand pattern: "[", one or more
\* characters of the class, ":", "'", one or more characters none of which
\* is a line break, "'", "]".
IsOccurrence(s, a, e) ==
    /\ 1 <= a
    /\ a + 6 <= e
    /\ e <= Len(s)
    /\ s[a] = "["
    /\ s[e] = "]"
    /\ s[e - 1] = QUOTE
    /\ \E c \in (a + 2)..(e - 4) :
          /\ s[c] = ":"
          /\ s[c + 1] = QUOTE
          /\ \A i \in (a + 1)..(c - 1) : s[i] \in IdChars
          /\ \A i \in (c + 2)..(e - 2) : s[i] # NL

\* s with each match of M replaced by the fragment returned for it and
\* everything else kept, from position `from` on.
RECURSIVE Rebuild(_, _, _)
Rebuild(s, M, from) ==
    IF M = <<>> THEN SubStr(s, from, Len(s))
    ELSE SubStr(s, from, Head(M).start - 1) \o Head(M).ret
         \o Rebuild(s, Tail(M), Head(M).end + 1)

ReplacesEveryOccurrence ==
    /\ \A j \in DOMAIN matches :
          /\ IsOccurrence(text, matches[j].start, matches[j].end)
          /\ \A e \in 1..(matches[j].end - 1) :
                ~IsOccurrence(text, matches[j].start, e)
          /\ matches[j].text =
                SubStr(text, matches[j].start + Len(matches[j].keyword_id) + 3,
                       matches[j].end - 2)
    /\ \A j \in 1..(Len(matches) - 1) : matches[j].end < matches[j + 1].start
    /\ \A p \in 1..Len(text) :
          (\E e \in p..Len(text) : IsOccurrence(text, p, e))
          => \E j \in DOMAIN matches : matches[j].start <= p /\ p <= matches[j].end
    /\ replaced = Rebuild(text, matches, 1)
    /\ (matches = <<>> => replaced = text)

\* C6 as stated: every occurrence of the pattern is replaced, matches are
\* non-overlapping and leftmost-first, the characters outside the matches stay
\* in place, a string with no match comes back unchanged, and the text span
\* of a match contains no single quote.
C6_Original ==
    tpc = "ret" =>
        /\ ReplacesEveryOccurrence
        /\ \A j \in DOMAIN matches : QUOTE \notin Range(matches[j].text)

\* C6 as amended: the same, except that the text span of a match is any
\* non-empty run of characters without a line break, single quotes included:
\* it ends at the first "'" that a "]" follows.
C6_ReplaceAll ==
    tpc = "ret" =>
        /\ ReplacesEveryOccurrence
        /\ \A j \in DOMAIN matches :
              /\ matches[j].text # <<>>
              /\ NL \notin Range(matches[j].text)

\* Two matches in one string with an untouched character between them.
C6_Witness ==
    /\ tpc = "ret"
    /\ Len(matches) = 2
    /\ matches[1].end + 1 < matches[2].start

Sprite(id)      == <<"<","s","p","r","i","t","e"," ","n","a","m","e","=","\"">>
                   \o id \o <<"\"",">">>
Colored(c, in)  == <<"<","c","o","l","o","r","=">> \o c \o <<">">> \o in
                   \o <<"<","/","c","o","l","o","r",">">>
Underlined(in)  == <<"<","u",">">> \o in \o <<"<","/","u",">">>
Linked(id, in)  == <<"<","l","i","n","k","=","\"">> \o id \o <<"\"",">">> \o in
                   \o <<"<","/","l","i","n","k",">">>

\* <sprite name="id"><color=C><u><link="id">text</link></u></color>
Fragment(id, c, txt) == Sprite(id) \o Colored(c, Underlined(Linked(id, txt)))

RECURSIVE UnknownIds(_)
UnknownIds(M) ==
    IF M = <<>> THEN <<>>
    ELSE (IF Head(M).keyword_id \in DOMAIN keyword_colors
          THEN <<>> ELSE <<Head(M).keyword_id>>) \o UnknownIds(Tail(M))

\* C4: each match [id:'text'] is replaced by the fragment
\* <sprite name="id"><color=C><u><link="id">text</link></u></color> with C the
\* table's color for id, or #f8c200 when id is not in the table; a line naming
\* id is printed if and only if id is not in the table.
C4_Fragment ==
    tpc = "ret" =>
        /\ \A j \in DOMAIN matches :
              LET id == matches[j].keyword_id
                  c  == IF id \in DOMAIN keyword_colors
                        THEN keyword_colors[id]
                        ELSE <<"#", "f", "8", "c", "2", "0", "0">>
              IN  /\ matches[j].ret = Fragment(id, c, matches[j].text)
                  /\ matches[j].printed <=> id \notin DOMAIN keyword_colors
        /\ printed = UnknownIds(matches)
        /\ replaced = Rebuild(text, matches, 1)

\* A string with a known and an unknown keyword, the known one in a color
\* other than the fallback.
C4_Witness ==
    /\ tpc = "ret"
    /\ \E i, j \in DOMAIN matches :
          /\ matches[i].keyword_id \in DOMAIN keyword_colors
          /\ keyword_colors[matches[i].keyword_id] # FallbackColor
          /\ matches[j].keyword_id \notin DOMAIN keyword_colors
          /\ matches[j].printed

----------------------------------------------------------------------------
(* Claims about convert_keywords *)

HasOccurrence(s) ==
    \E a \in 1..Len(s) : \E e \in a..Len(s) : IsOccurrence(s, a, e)

\* b is a with the same shape: the same kind of value, mappings with the
\* same keys in the same order, sequences of the same length, every leaf that
\* is not a string equal, every string without an occurrence of the pattern
\* equal, a string with one still a string.
RECURSIVE SameShape(_, _)
SameShape(a, b) ==
    /\ b.tag = a.tag
    /\ b.keys = a.keys
    /\ Len(b.kids) = Len(a.kids)
    /\ \A i \in DOMAIN a.kids : SameShape(a.kids[i], b.kids[i])
    /\ (a.tag # "str" => b.val = a.val)
    /\ (a.tag = "str" /\ ~HasOccurrence(a.val) => b.val = a.val)

\* C5: after convert_keywords the document has the shape it had and its
\* leaves other than strings with a shorthand are unchanged; the keyword table
\* is what it was before the call.
C5_ShapePreserved ==
    dpc = "ret" => /\ SameShape(data0, data)
                   /\ keyword_colors = table0

RECURSIVE Depth(_), MaxDepthOf(_)
Depth(v) == IF IsContainer(v) THEN 1 + MaxDepthOf(v.kids) ELSE 0
MaxDepthOf(kids) ==
    IF kids = <<>> THEN 0
    ELSE LET h == Depth(Head(kids))
             t == MaxDepthOf(Tail(kids))
         IN  IF h > t THEN h ELSE t

\* A document two levels deep, with a mapping of two keys, in which a string
\* was rewritten while a number kept its place.
C5_Witness ==
    /\ dpc = "ret"
    /\ data # data0
    /\ Depth(data0) >= 2
    /\ \E i \in DOMAIN data0.kids :
          /\ data0.kids[i].tag = "dict"
          /\ data0.kids[i].keys = <<"b", "a">>
          /\ data0.kids[i].kids[1] = Num(1)
          /\ data0.kids[i].kids[2] = Str(KnownSh)

----------------------------------------------------------------------------
(* Claims about GitHubRelease.make_readme *)

\* v is s without a leading and a trailing run of characters of `chars`,
\* each run as long as it can be.
IsStripped(v, s, chars) ==
    \E a \in 1..(Len(s) + 1) : \E b \in (a - 1)..Len(s) :
        /\ v = SubStr(s, a, b)
        /\ \A i \in 1..(a - 1) : s[i] \in chars
        /\ \A i \in (b + 1)..Len(s) : s[i] \in chars
        /\ (a <= b => s[a] \notin chars /\ s[b] \notin chars)

\* v is s without its leading run of characters of `chars`.
IsLeftStripped(v, s, chars) ==
    \E a \in 1..(Len(s) + 1) :
        /\ v = SubStr(s, a, Len(s))
        /\ \A i \in 1..(a - 1) : s[i] \in chars
        /\ (a <= Len(s) => s[a] \notin chars)

\* The first character of the line that is not a blank is "#".
FirstNonBlankIsHash(line) ==
    \E j \in DOMAIN line :
        /\ line[j] = "#"
        /\ \A i \in 1..(j - 1) : line[i] \in {" ", TAB}

SizeTagged(v) ==
    <<"<","s","i","z","e","=","4","9",">">> \o v \o <<"<","/","s","i","z","e",">">>

\* C7 as stated: one element per line, in order; a heading (leading "#" and
\* space characters stripped, size 49) if and only if the line starts with
\* "#"; every other line, a line with "#" after leading whitespace included,
\* a plain text element with the line verbatim.
C7_Original ==
    mpc = "ret" =>
        LET lines == splitlines(body)
        IN  /\ Len(readme_text) = Len(lines)
            /\ \A i \in DOMAIN lines :
                  IF lines[i] # <<>> /\ lines[i][1] = "#"
                  THEN /\ readme_text[i].key = "SubTitle"
                       /\ readme_text[i].size = 49
                       /\ IsLeftStripped(readme_text[i].value, lines[i], {"#", " "})
                  ELSE /\ readme_text[i].key = "Text"
                       /\ readme_text[i].value = lines[i]

\* C7 as amended: one element per line, in order; a heading if and only if
\* the first character of the line that is not whitespace is "#", its value
\* the line without its first character and then without the "#" and space
\* characters at both ends, exported with size 49; every other line, a blank
\* one included, a plain text element with the line verbatim.
C7_Elements ==
    mpc = "ret" =>
        LET lines == splitlines(body)
        IN  /\ Len(readme_text) = Len(lines)
            /\ Len(exported) = Len(lines)
            /\ \A i \in DOMAIN lines :
                  IF FirstNonBlankIsHash(lines[i])
                  THEN /\ readme_text[i].key = "SubTitle"
                       /\ readme_text[i].size = 49
                       /\ IsStripped(readme_text[i].value,
                                     SubStr(lines[i], 2, Len(lines[i])), {"#", " "})
                       /\ exported[i] = [formatKey |-> "SubTitle",
                                         formatValue |-> SizeTagged(readme_text[i].value)]
                  ELSE /\ readme_text[i].key = "Text"
                       /\ readme_text[i].value = lines[i]
                       /\ exported[i] = [formatKey |-> "Text", formatValue |-> lines[i]]

\* A body of three lines: a heading whose "#" follows a blank, an empty line
\* and a plain line.
C7_Witness ==
    /\ mpc = "ret"
    /\ Len(readme_text) = 3
    /\ body[1] = " "
    /\ readme_text[1].key = "SubTitle"
    /\ readme_text[2] = ReadmeText(<<>>)
    /\ readme_text[3] = ReadmeText(<<"x">>)

----------------------------------------------------------------------------
(* Claims about dist_readme's notice list *)

\* The k-th oldest of the releases the API lists.
KthOldest(k) ==
    CHOOSE r \in Range(api_releases) :
        Cardinality({q \in Range(api_releases) : q.published_at < r.published_at}) = k - 1

\* C3: with N releases, the k-th oldest has the notice id 2911 + k; the
\* release notices stand in the final noticeList newest first, after the
\* template's notices, the contributors notice (1193) and the extra notice
\* (1194).
C3_ReleaseIds ==
    rpc = "done" =>
        LET N == Len(api_releases)
            T == Len(template)
        IN  /\ Len(noticeList) = T + 2 + N
            /\ SubSeq(noticeList, 1, T) = template
            /\ noticeList[T + 1].id = 1193
            /\ noticeList[T + 2].id = 1194
            /\ \A k \in 1..N :
                  LET n == noticeList[T + 2 + (N + 1 - k)]
                  IN  /\ n.title_KR = KthOldest(k).name
                      /\ n.startDate = ReleaseDates[KthOldest(k).published_at]
                      /\ n.id = 2911 + k

\* Three releases after a template with notices of its own.
C3_Witness ==
    /\ rpc = "done"
    /\ Len(api_releases) = 3
    /\ Len(template) = 2
    /\ noticeList[Len(noticeList)].id = 2912

----------------------------------------------------------------------------
(* Claims about the dist pipeline *)

RunEnded == pc \in {"done", "raised"}

\* C1: after a run, every file in the output tree has a FileRecord whose
\* checksum is the checksum of the bytes the output tree holds for it.
C1_ChecksumOfOutput ==
    RunEnded =>
        \A path \in DOMAIN dist :
            \E i \in DOMAIN files :
                /\ files[i].path = path
                /\ files[i].checksum = get_file_checksum(dist[path])

\* The files of RU that do not parse as JSON.
Unparsable == {f \in DOMAIN ru_tree : ru_tree[f].kind # "json"}

LocEnded == pc \notin {"start", "loc"}
LocRaised == pc = "raised" /\ Len(stages) = 1

\* C2: dist_localization_data examines every file of RU whatever the earlier
\* ones were; it raises, after the scan, if and only if some file did not
\* parse, and the error names exactly those files; none of them is copied or
\* recorded.
C2_NotFailFast ==
    LocEnded =>
        /\ examined = DOMAIN ru_tree
        /\ LocRaised <=> Unparsable # {}
        /\ LocRaised => Range(error.paths) = Unparsable
        /\ \A f \in Unparsable :
              /\ f \notin DOMAIN dist
              /\ \A i \in DOMAIN files : files[i].path # f

\* C10: after a successful run no two FileRecords have the same path.
C10_DistinctPaths ==
    pc = "done" =>
        \A i, j \in DOMAIN files : i # j => files[i].path # files[j].path

IsPrefix(p, q) == Len(p) <= Len(q) /\ SubSeq(q, 1, Len(p)) = p

StageOrder ==
    <<"dist_localization_data", "dist_sprites", "dist_extra_files", "dist_readme">>

\* C9: the stages run in the order localization, sprites, extra files,
\* readme; metadata.files only grows at its end; metadata.json is written
\* once, after the four stages, with the records they appended; once a stage
\* has raised, nothing more happens and metadata.json is not written.
C9_AppendOnly ==
    /\ [](/\ IsPrefix(stages, StageOrder)
          /\ Len(metadata_json) <= 1
          /\ (metadata_json # <<>> =>
                 /\ pc = "done"
                 /\ stages = StageOrder
                 /\ metadata_json[1].files = files
                 /\ files[Len(files)].path = <<"Readme", "Readme.json">>)
          /\ (pc = "done" => Len(metadata_json) = 1)
          /\ (pc = "raised" => metadata_json = <<>>))
    /\ [][/\ IsPrefix(files, files')
          /\ (pc = "raised" => UNCHANGED <<stages, files, dist, metadata_json, pc>>)]_vars

\* A successful run in which three stages appended records.
C9_Witness ==
    /\ pc = "done"
    /\ Len(metadata_json) = 1
    /\ Len(files) >= 4
    /\ \E i \in DOMAIN files : files[i].path[1] = "RU"
    /\ \E i \in DOMAIN files : files[i].path = <<"Readme", "Sprites", "s.png">>
    /\ \E i \in DOMAIN files : files[i].path = <<"Readme", "e.txt">>

----------------------------------------------------------------------------
(* Claims about the submodule updater *)

\* The remote calls of a run over n submodules, in order.
CallOrder(n) ==
    <<"fetch_gitmodules", "get_ref", "get_commit">>
    \o [j \in 1..n |-> "get_branch"]
    \o <<"create_tree", "create_commit", "update_ref">>

SuccessStatus(op) == IF op \in {"create_tree", "create_commit"} THEN 201 ELSE 200

Ops(reqs) == [j \in DOMAIN reqs |-> reqs[j].op]

\* C8: the remote calls are made in the fixed order; a call answered with a
\* status other than success is the last one of the run; the main ref is
\* updated at most once, after the tree and the commit were created, to the
\* commit created on the parent that was read.
C8_CallOrder ==
    /\ IsPrefix(Ops(requests), CallOrder(Len(gitmodules.sections)))
    /\ \A j \in DOMAIN requests :
          requests[j].status # SuccessStatus(requests[j].op)
          => j = Len(requests) /\ spc = "raised"
    /\ Len(ref_updates) <= 1
    /\ (spc = "raised" => ref_updates = <<>>)
    /\ (ref_updates # <<>> =>
           /\ \E j \in DOMAIN requests : requests[j] = Request("create_tree", 201)
           /\ \E j \in DOMAIN requests : requests[j] = Request("create_commit", 201)
           /\ requests[Len(requests)] = Request("update_ref", 200)
           /\ ref_updates[1] = new_commit_sha
           /\ remote.main = new_commit_sha
           /\ new_commit_sha \notin InitRemote.shas
           /\ remote.commits[new_commit_sha].parents = <<parent_sha>>
           /\ remote.commits[new_commit_sha].tree = new_tree_sha
           /\ parent_sha = InitRemote.main)

\* A complete run over two submodules.
C8_Witness ==
    /\ spc = "done"
    /\ Len(submodules) = 2
    /\ Len(requests) = 8
    /\ ref_updates = <<new_commit_sha>>

====
